---- MODULE Spec2Model ----
(***************************************************************************)
(* Model of src/main.py: the DNS takeover quick check.                     *)
(*                                                                         *)
(* A Python str is a sequence of one-character strings; a list of str is   *)
(* a sequence of such sequences.  The DNS library (dns.resolver) is the    *)
(* environment: every query nondeterministically returns records or raises *)
(* one of the exception kinds below.  check_vulnerability is a state       *)
(* machine whose steps are the blocks of the function between two queries. *)
(***************************************************************************)
EXTENDS Naturals, Sequences, FiniteSets

VARIABLES
    entry,            \* the function that was called: check_vulnerability or check_ns_resolution
    pc,               \* position in the called function
    subdomain,        \* argument subdomain
    parent_arg,       \* argument parent_domain as passed by the caller
    parent_domain,    \* local parent_domain (reassigned on line 115)
    subdomain_ns,     \* local subdomain_ns / argument ns_servers
    parent_ns,        \* local parent_ns
    aws_ns_servers,   \* local aws_ns_servers
    i,                \* index of the next element of the for loop of line 60
    resolving_ns,     \* local resolving_ns of check_ns_resolution
    ret,              \* value returned by check_ns_resolution
    out,              \* lines printed so far
    queries,          \* DNS queries issued so far, with their outcome
    exc               \* exception that left the called function, if any

vars == <<entry, pc, subdomain, parent_arg, parent_domain, subdomain_ns, parent_ns,
          aws_ns_servers, i, resolving_ns, ret, out, queries, exc>>

-----------------------------------------------------------------------------
(* Bounds of the model *)

\* longest list of NS records the resolver answers with in a whole run
MaxNS == 2
\* longest subdomain string given to infer_parent_domain
MaxLen == 4
\* longest list of NS records given to the provider classification
MaxClsLen == 2
\* longest ns_servers list given to check_ns_resolution called on its own
MaxProbeLen == 2

-----------------------------------------------------------------------------
(* Python values *)

\* Python None where a str is expected
None == <<"None">>
\* a local list that is not bound yet
Unbound == <<None>>

Truthy(s) == s # None /\ s # <<>>

Range(s) == {s[k] : k \in DOMAIN s}

\* all sequences over S of length lo..hi
SeqsOf(S, lo, hi) == UNION {[1..n -> S] : n \in lo..hi}

Last(s) == s[Len(s)]

-----------------------------------------------------------------------------
(* str.split('.'), '.'.join, str.lower, `in` on str *)

HasDot(s) == \E k \in DOMAIN s : s[k] = "."

FirstDot(s) == CHOOSE k \in DOMAIN s : s[k] = "." /\ \A j \in 1..(k - 1) : s[j] # "."

RECURSIVE Split(_)
Split(s) ==
    IF ~HasDot(s) THEN <<s>>
    ELSE <<SubSeq(s, 1, FirstDot(s) - 1)>> \o Split(SubSeq(s, FirstDot(s) + 1, Len(s)))

RECURSIVE Join(_)
Join(parts) ==
    IF Len(parts) = 0 THEN <<>>
    ELSE IF Len(parts) = 1 THEN parts[1]
    ELSE parts[1] \o <<".">> \o Join(Tail(parts))

UpperLetters == <<"A","B","C","D","E","F","G","H","I","J","K","L","M",
                  "N","O","P","Q","R","S","T","U","V","W","X","Y","Z">>
LowerLetters == <<"a","b","c","d","e","f","g","h","i","j","k","l","m",
                  "n","o","p","q","r","s","t","u","v","w","x","y","z">>

LowerChar(c) ==
    IF \E k \in DOMAIN UpperLetters : UpperLetters[k] = c
    THEN LowerLetters[CHOOSE k \in DOMAIN UpperLetters : UpperLetters[k] = c]
    ELSE c

Lower(s) == [k \in DOMAIN s |-> LowerChar(s[k])]

\* pattern in s
Contains(pattern, s) ==
    \E k \in 1..(Len(s) - Len(pattern) + 1) : SubSeq(s, k, k + Len(pattern) - 1) = pattern

-----------------------------------------------------------------------------
(* infer_parent_domain *)

infer_parent_domain_ge2(s) ==
    LET parts == Split(s) IN
    IF Len(parts) >= 2 THEN Join(Tail(parts)) ELSE None

infer_parent_domain(s) ==
    LET parts == Split(s) IN
    IF Len(parts) > 2 THEN Join(Tail(parts)) ELSE None

-----------------------------------------------------------------------------
(* The DNS library: outcomes of dns.resolver.resolve and the exception classes *)

\* the exceptions resolve() raises: no answer, NXDOMAIN, timeout, no name
\* servers responding, and any other error
Kinds == {"NoAnswer", "NXDOMAIN", "LifetimeTimeout", "NoNameservers", "OtherError"}

\* the classes an exception of each kind is an instance of
\* (LifetimeTimeout is a subclass of Timeout; everything is an Exception)
Classes(kind) ==
    CASE kind = "NoAnswer"        -> {"NoAnswer", "Exception"}
      [] kind = "NXDOMAIN"        -> {"NXDOMAIN", "Exception"}
      [] kind = "LifetimeTimeout" -> {"LifetimeTimeout", "Timeout", "Exception"}
      [] kind = "NoNameservers"   -> {"NoNameservers", "Exception"}
      [] kind = "OtherError"      -> {"Exception"}

\* The except clauses of a try statement are <<class, text of the line printed>>
\* in source order; "" is a handler that prints nothing.  The first clause whose
\* class the exception is an instance of handles it; "uncaught" when none does.
Handler(clauses, kind) ==
    IF \E k \in DOMAIN clauses : clauses[k][1] \in Classes(kind)
    THEN clauses[CHOOSE k \in DOMAIN clauses :
                    /\ clauses[k][1] \in Classes(kind)
                    /\ \A j \in 1..(k - 1) : clauses[j][1] \notin Classes(kind)][2]
    ELSE "uncaught"

\* a printed line: its text, the query it reports on, and the loop index for
\* the lines of the per-name-server loop (0 elsewhere)
Line(text, q, idx) == [text |-> text, q |-> q, idx |-> idx]

\* a query: which one, the loop index (0 outside the loop), "ok" or the exception kind
Query(q, idx, kind) == [q |-> q, idx |-> idx, kind |-> kind]

\* outcomes of an NS query when the resolver may answer with any of `answers`
NSOutcomes(answers) ==
    {[kind |-> "ok", recs |-> a] : a \in answers} \cup {[kind |-> k, recs |-> <<>>] : k \in Kinds}

-----------------------------------------------------------------------------
(* get_ns_records *)

get_ns_records_clauses ==
    << <<"NoAnswer", "">>,
       <<"NXDOMAIN", "">>,
       <<"LifetimeTimeout", "Timeout querying NS">>,
       <<"Exception", "Error querying NS">> >>

\* the list returned and the lines printed, for query q with outcome o
get_ns_records(o, q) ==
    IF o.kind = "ok" THEN [list |-> o.recs, lines |-> <<>>]
    ELSE LET h == Handler(get_ns_records_clauses, o.kind) IN
         [list |-> <<>>, lines |-> IF h = "" THEN <<>> ELSE <<Line(h, q, 0)>>]

-----------------------------------------------------------------------------
(* check_vulnerability, up to the resolution checks *)

\* lines 111-120 without the return of line 118
cv_infer_parent_no_return ==
    /\ entry = "check_vulnerability"
    /\ pc = "start"
    /\ LET head == out \o <<Line("Checking DNS takeover vulnerability", "-", 0)>>
           pd   == IF ~Truthy(parent_domain) THEN infer_parent_domain(subdomain)
                   ELSE parent_domain
       IN /\ parent_domain' = pd
          /\ out' = head \o (IF ~Truthy(pd)
                             THEN <<Line("Unable to infer parent domain", "-", 0)>> ELSE <<>>)
                         \o <<Line("Using parent domain", "-", 0)>>
          /\ pc' = "sub_ns"
    /\ UNCHANGED <<entry, subdomain, parent_arg, subdomain_ns, parent_ns, aws_ns_servers,
                   i, resolving_ns, ret, queries, exc>>

\* lines 111-120
cv_infer_parent ==
    /\ entry = "check_vulnerability"
    /\ pc = "start"
    /\ LET head == out \o <<Line("Checking DNS takeover vulnerability", "-", 0)>>
           pd   == IF ~Truthy(parent_domain) THEN infer_parent_domain(subdomain)
                   ELSE parent_domain
       IN /\ parent_domain' = pd
          /\ IF ~Truthy(pd)
             THEN /\ out' = head \o <<Line("Unable to infer parent domain", "-", 0)>>
                  /\ pc' = "done"
             ELSE /\ out' = head \o <<Line("Using parent domain", "-", 0)>>
                  /\ pc' = "sub_ns"
    /\ UNCHANGED <<entry, subdomain, parent_arg, subdomain_ns, parent_ns, aws_ns_servers,
                   i, resolving_ns, ret, queries, exc>>

\* lines 122-128
cv_get_subdomain_ns(answers) ==
    /\ pc = "sub_ns"
    /\ \E o \in NSOutcomes(answers) :
          LET r == get_ns_records(o, "sub_ns") IN
          /\ queries' = Append(queries, Query("sub_ns", 0, o.kind))
          /\ subdomain_ns' = r.list
          /\ IF r.list = <<>>
             THEN /\ out' = out \o r.lines \o <<Line("No NS records found", "sub_ns", 0)>>
                  /\ pc' = "done"
             ELSE /\ out' = out \o r.lines \o <<Line("Found NS records", "sub_ns", 0)>>
                  /\ pc' = "parent_ns"
    /\ UNCHANGED <<entry, subdomain, parent_arg, parent_domain, parent_ns, aws_ns_servers,
                   i, resolving_ns, ret, exc>>

\* lines 130-132
cv_get_parent_ns(answers) ==
    /\ pc = "parent_ns"
    /\ \E o \in NSOutcomes(answers) :
          LET r == get_ns_records(o, "parent_ns") IN
          /\ queries' = Append(queries, Query("parent_ns", 0, o.kind))
          /\ parent_ns' = r.list
          /\ out' = out \o r.lines \o <<Line("Found NS records for parent domain", "parent_ns", 0)>>
          /\ pc' = "compare"
    /\ UNCHANGED <<entry, subdomain, parent_arg, parent_domain, subdomain_ns, aws_ns_servers,
                   i, resolving_ns, ret, exc>>

\* set(subdomain_ns) == set(parent_ns), line 135
same_ns_as_list(s, p) == s = p

same_ns(s, p) == Range(s) = Range(p)

\* lines 134-139
cv_compare ==
    /\ pc = "compare"
    /\ IF same_ns(subdomain_ns, parent_ns)
       THEN /\ out' = Append(out, Line("Subdomain uses the same NS as the parent", "-", 0))
            /\ pc' = "done"
       ELSE /\ out' = Append(out, Line("has a different delegation", "-", 0))
            /\ pc' = "classify"
    /\ UNCHANGED <<entry, subdomain, parent_arg, parent_domain, subdomain_ns, parent_ns,
                   aws_ns_servers, i, resolving_ns, ret, queries, exc>>

\* line 142
aws_ns_pattern == << <<".","a","w","s","d","n","s","-">>,
                    <<".","a","m","a","z","o","n","a","w","s",".","c","o","m">> >>

\* the condition of the comprehension of line 143
is_aws_ns_no_lower(ns) == \E k \in DOMAIN aws_ns_pattern : Contains(aws_ns_pattern[k], ns)

is_aws_ns(ns) == \E k \in DOMAIN aws_ns_pattern : Contains(aws_ns_pattern[k], Lower(ns))

\* lines 141-146; with no AWS name server the function goes on to line 162
cv_classify ==
    /\ pc = "classify"
    /\ aws_ns_servers' = SelectSeq(subdomain_ns, is_aws_ns)
    /\ IF aws_ns_servers' # <<>>
       THEN /\ out' = Append(out, Line("Detected AWS Name Servers", "-", 0))
            /\ pc' = "direct_a"
       ELSE /\ out' = out
            /\ pc' = "cnr_enter"
    /\ UNCHANGED <<entry, subdomain, parent_arg, parent_domain, subdomain_ns, parent_ns,
                   i, resolving_ns, ret, queries, exc>>

-----------------------------------------------------------------------------
(* check_vulnerability: the direct A query *)

direct_a_clauses ==
    << <<"NoAnswer", "No A record found">>,
       <<"NXDOMAIN", "does not exist in DNS">>,
       <<"LifetimeTimeout", "Query timeout">>,
       <<"NoNameservers", "No name servers responding">> >>

\* lines 148-159: an exception no clause handles leaves check_vulnerability
cv_direct_a ==
    /\ pc = "direct_a"
    /\ \E kind \in {"ok"} \cup Kinds :
          LET h == IF kind = "ok" THEN "Subdomain resolves properly"
                   ELSE Handler(direct_a_clauses, kind)
          IN /\ queries' = Append(queries, Query("direct_a", 0, kind))
             /\ IF h = "uncaught"
                THEN /\ exc' = kind
                     /\ out' = out
                     /\ pc' = "done"
                ELSE /\ exc' = exc
                     /\ out' = Append(out, Line(h, "direct_a", 0))
                     /\ pc' = "cnr_enter"
    /\ UNCHANGED <<entry, subdomain, parent_arg, parent_domain, subdomain_ns, parent_ns,
                   aws_ns_servers, i, resolving_ns, ret>>

-----------------------------------------------------------------------------
(* check_ns_resolution *)

\* lines 57-59
cnr_enter ==
    /\ pc = "cnr_enter"
    /\ out' = Append(out, Line("Checking if NS servers can resolve the subdomain", "-", 0))
    /\ resolving_ns' = <<>>
    /\ i' = 1
    /\ pc' = "cnr_loop"
    /\ UNCHANGED <<entry, subdomain, parent_arg, parent_domain, subdomain_ns, parent_ns,
                   aws_ns_servers, ret, queries, exc>>

cnr_clauses ==
    << <<"NoAnswer", "did not return an answer">>,
       <<"NXDOMAIN", "does not exist when queried through">>,
       <<"Timeout", "Timeout querying">>,
       <<"NoNameservers", "does not have any valid name servers responding">>,
       <<"Exception", "Error checking">> >>

\* The two queries of one iteration: the A query for the name server's own
\* hostname (line 63) and, when that gave an address, the A query for the
\* subdomain through it (line 67).
ProbeOutcomes ==
    {[host |-> "ok", a |-> k] : k \in {"ok"} \cup Kinds}
        \cup {[host |-> k, a |-> "none"] : k \in Kinds}

\* the exception raised inside the try of lines 61-79, "ok" when none is
ProbeRaised(o) == IF o.host # "ok" THEN o.host ELSE o.a

\* lines 60-79, one iteration of the loop
cnr_probe ==
    /\ pc = "cnr_loop"
    /\ i <= Len(subdomain_ns)
    /\ \E o \in ProbeOutcomes :
          LET raised == ProbeRaised(o) IN
          /\ queries' = queries \o <<Query("ns_host", i, o.host)>>
                          \o (IF o.host = "ok" THEN <<Query("ns_a", i, o.a)>> ELSE <<>>)
          /\ IF raised = "ok"
             THEN /\ resolving_ns' = Append(resolving_ns, subdomain_ns[i])
                  /\ out' = Append(out, Line("can resolve", "probe", i))
             ELSE /\ resolving_ns' = resolving_ns
                  /\ out' = Append(out, Line(Handler(cnr_clauses, raised), "probe", i))
    /\ i' = i + 1
    /\ UNCHANGED <<entry, pc, subdomain, parent_arg, parent_domain, subdomain_ns, parent_ns,
                   aws_ns_servers, ret, exc>>

\* the value returned on lines 81-84
cnr_result_all(resolving, ns_servers) ==
    IF Len(resolving) = Len(ns_servers) THEN "True" ELSE "False"

cnr_result(resolving, ns_servers) == IF resolving = <<>> THEN "False" ELSE "True"

\* lines 81-84, after the loop
cnr_return ==
    /\ pc = "cnr_loop"
    /\ i > Len(subdomain_ns)
    /\ ret' = cnr_result(resolving_ns, subdomain_ns)
    /\ out' = IF resolving_ns = <<>>
              THEN Append(out, Line("None of the NS servers were able to resolve", "-", 0))
              ELSE out
    /\ pc' = IF entry = "check_vulnerability" THEN "next_step" ELSE "done"
    /\ UNCHANGED <<entry, subdomain, parent_arg, parent_domain, subdomain_ns, parent_ns,
                   aws_ns_servers, i, resolving_ns, queries, exc>>

\* line 164
cv_next_step ==
    /\ pc = "next_step"
    /\ out' = Append(out, Line("Next step", "-", 0))
    /\ pc' = "done"
    /\ UNCHANGED <<entry, subdomain, parent_arg, parent_domain, subdomain_ns, parent_ns,
                   aws_ns_servers, i, resolving_ns, ret, queries, exc>>

-----------------------------------------------------------------------------
(* Inputs *)

\* the calls made: <<subdomain, parent_domain>>, parent_domain None when the
\* command line gives none (line 173)
Calls == { <<<<"a",".","b">>, None>>,
           <<<<"x",".","a",".","b">>, None>>,
           <<<<"a",".","b">>, <<"b">>>> }

\* parent_domain arguments for the first step alone; '' is falsy like None
ParentArgs == { None, <<>>, <<"b">> }

\* name servers the resolver answers with: an AWS one and one that is not
NSPool == { <<"n",".","a","w","s","d","n","s","-","1",".">>, <<"n",".","i","o",".">> }

\* the second one as another resolver output may write it: in another letter
\* case, and without the trailing dot
NSVariants == { <<"N",".","I","O",".">>, <<"n",".","i","o">> }

\* an answer of resolve() holds at least one record
NSAnswers == SeqsOf(NSPool, 1, MaxNS)

ParentNSAnswers == NSAnswers \cup {<<v>> : v \in NSVariants}

\* the state in which a function starts
Entry(fn, at) ==
    /\ entry = fn
    /\ pc = at
    /\ parent_ns = Unbound
    /\ aws_ns_servers = Unbound
    /\ i = 0
    /\ resolving_ns = Unbound
    /\ ret = "None"
    /\ out = <<>>
    /\ queries = <<>>
    /\ exc = "none"

-----------------------------------------------------------------------------
(* Spec: a run of check_vulnerability(subdomain, parent_domain), lines 167-175 *)

Init ==
    /\ Entry("check_vulnerability", "start")
    /\ \E c \in Calls : subdomain = c[1] /\ parent_arg = c[2]
    /\ parent_domain = parent_arg
    /\ subdomain_ns = Unbound

Next ==
    \/ cv_infer_parent
    \/ cv_get_subdomain_ns(NSAnswers)
    \/ cv_get_parent_ns(ParentNSAnswers)
    \/ cv_compare
    \/ cv_classify
    \/ cv_direct_a
    \/ cnr_enter
    \/ cnr_probe
    \/ cnr_return
    \/ cv_next_step

Spec == Init /\ [][Next]_vars

-----------------------------------------------------------------------------
(* SpecInfer: the first step of check_vulnerability on every short subdomain *)

InferAlphabet == {"a", "b", "."}

InitInfer ==
    /\ Entry("check_vulnerability", "start")
    /\ subdomain \in SeqsOf(InferAlphabet, 0, MaxLen)
    /\ parent_arg \in ParentArgs
    /\ parent_domain = parent_arg
    /\ subdomain_ns = Unbound

NextInfer == cv_infer_parent

SpecInfer == InitInfer /\ [][NextInfer]_vars

-----------------------------------------------------------------------------
(* SpecClassify: check_vulnerability up to the provider classification, on   *)
(* name servers that hold or nearly hold the AWS patterns                    *)

ClsPool == { <<"n",".","a","w","s","d","n","s","-","1">>,
             <<"N",".","A","W","S","D","N","S","-","1">>,
             <<"n",".","A","w","s","D","n","s","-","1">>,
             <<"a","w","s","d","n","s","-","1">>,
             <<"n",".","a","w","s","d","n","s",".","i","o">>,
             <<"s","3",".","a","m","a","z","o","n","a","w","s",".","c","o","m">>,
             <<"S","3",".","A","m","a","z","o","n","A","W","S",".","C","o","m">>,
             <<"a","m","a","z","o","n","a","w","s",".","c","o","m">>,
             <<"n",".","i","o">> }

ClsAnswers == SeqsOf(ClsPool, 1, MaxClsLen)

ClsParentAnswers == { <<<<"p",".","i","o">>>> }

InitClassify ==
    /\ Entry("check_vulnerability", "start")
    /\ subdomain = <<"x",".","a",".","b">>
    /\ parent_arg = None
    /\ parent_domain = parent_arg
    /\ subdomain_ns = Unbound

NextClassify ==
    \/ cv_infer_parent
    \/ cv_get_subdomain_ns(ClsAnswers)
    \/ cv_get_parent_ns(ClsParentAnswers)
    \/ cv_compare
    \/ cv_classify

SpecClassify == InitClassify /\ [][NextClassify]_vars

-----------------------------------------------------------------------------
(* SpecProbe: check_ns_resolution(subdomain, ns_servers) called on its own *)

InitProbe ==
    /\ Entry("check_ns_resolution", "cnr_enter")
    /\ subdomain = <<"x",".","a",".","b">>
    /\ parent_arg = None
    /\ parent_domain = None
    /\ subdomain_ns \in SeqsOf(NSPool, 0, MaxProbeLen)

NextProbe ==
    \/ cnr_enter
    \/ cnr_probe
    \/ cnr_return

SpecProbe == InitProbe /\ [][NextProbe]_vars

-----------------------------------------------------------------------------
(* What the properties speak of *)

LabelCount(s) == Cardinality({k \in DOMAIN s : s[k] = "."}) + 1

\* t is s without its leftmost label: what follows the first '.' of s
IsAfterFirstDot(t, s) ==
    \E k \in DOMAIN s :
        /\ s[k] = "."
        /\ \A j \in 1..(k - 1) : s[j] # "."
        /\ t = SubSeq(s, k + 1, Len(s))

Printed(text) == \E k \in DOMAIN out : out[k].text = text

Issued(qs) == {k \in DOMAIN queries : queries[k].q \in qs}

BeforeCompare == {"start", "sub_ns", "parent_ns", "compare"}

\* two characters that are the same letter in either case
SameLetter(a, b) ==
    \/ a = b
    \/ \E n \in DOMAIN UpperLetters : {a, b} = {UpperLetters[n], LowerLetters[n]}

HasPatternIgnoringCase(h) ==
    \E n \in DOMAIN aws_ns_pattern :
        LET pat == aws_ns_pattern[n] IN
        \E k \in 1..(Len(h) - Len(pat) + 1) :
            \A j \in DOMAIN pat : SameLetter(h[k + j - 1], pat[j])

\* a name-server name in lower case and without its trailing dot
Normalized(h) ==
    LET l == [k \in DOMAIN h |-> IF \E n \in DOMAIN UpperLetters : UpperLetters[n] = h[k]
                                 THEN LowerLetters[CHOOSE n \in DOMAIN UpperLetters :
                                                      UpperLetters[n] = h[k]]
                                 ELSE h[k]]
    IN IF Len(l) > 0 /\ l[Len(l)] = "." THEN SubSeq(l, 1, Len(l) - 1) ELSE l

NormalizedSet(list) == {Normalized(list[k]) : k \in DOMAIN list}

\* the name server at idx resolved: its hostname gave an address and the A
\* query for the subdomain through it succeeded
Resolved(idx) ==
    /\ \E k \in DOMAIN queries : queries[k] = Query("ns_host", idx, "ok")
    /\ \E k \in DOMAIN queries : queries[k] = Query("ns_a", idx, "ok")

\* the lines that describe a failure
FailureTexts ==
    {"Timeout querying NS", "Error querying NS", "No NS records found",
     "No A record found", "does not exist in DNS", "Query timeout",
     "No name servers responding",
     "did not return an answer", "does not exist when queried through",
     "Timeout querying", "does not have any valid name servers responding",
     "Error checking"}

\* the failure lines printed about query f
FailureLinesAbout(f) ==
    IF f.q \in {"ns_host", "ns_a"}
    THEN {k \in DOMAIN out : out[k].q = "probe" /\ out[k].idx = f.idx
                             /\ out[k].text \in FailureTexts}
    ELSE {k \in DOMAIN out : out[k].q = f.q /\ out[k].text \in FailureTexts}

\* resolution verification (direct A query, per-name-server probes) was reached
VerificationReached ==
    \/ Issued({"direct_a", "ns_host", "ns_a"}) # {}
    \/ Printed("Checking if NS servers can resolve the subdomain")

-----------------------------------------------------------------------------
(* Properties *)

\* C1: infer_parent_domain gives None for an input of at most two labels, and
\* for an input of more labels the input without its leftmost label (what
\* follows the first '.'), which has exactly one label fewer.
C1_InferParent ==
    (pc # "start" /\ ~Truthy(parent_arg)) =>
        IF LabelCount(subdomain) <= 2
        THEN parent_domain = None
        ELSE /\ IsAfterFirstDot(parent_domain, subdomain)
             /\ LabelCount(parent_domain) = LabelCount(subdomain) - 1

C1_Witness ==
    /\ pc # "start"
    /\ ~Truthy(parent_arg)
    /\ LabelCount(subdomain) = 3
    /\ IsAfterFirstDot(parent_domain, subdomain)
    /\ Len(parent_domain) >= 3

\* C2: the comparison says "same as parent" exactly when the two NS lists are
\* equal as sets after lower-casing and removal of the trailing dot.
C2_NormalizedComparison ==
    (pc \notin BeforeCompare /\ parent_ns # Unbound) =>
        /\ Printed("Subdomain uses the same NS as the parent")
              <=> (NormalizedSet(subdomain_ns) = NormalizedSet(parent_ns))
        /\ Printed("has a different delegation")
              <=> (NormalizedSet(subdomain_ns) # NormalizedSet(parent_ns))

\* C3: the match list holds only elements of the subdomain NS list, and a name
\* server of that list is in it exactly when it holds one of the patterns as a
\* substring, letter case ignored.
C3_ProviderMatch ==
    aws_ns_servers # Unbound =>
        /\ \A k \in DOMAIN aws_ns_servers : aws_ns_servers[k] \in Range(subdomain_ns)
        /\ \A h \in Range(subdomain_ns) :
              (h \in Range(aws_ns_servers)) <=> HasPatternIgnoringCase(h)

C3_Witness ==
    /\ aws_ns_servers # Unbound
    /\ \E h \in Range(aws_ns_servers) : h # Lower(h)
    /\ \E h \in Range(subdomain_ns) : h \notin Range(aws_ns_servers)

\* C4: check_ns_resolution returns True exactly when at least one name server
\* resolved; otherwise (also with no name server at all) it returns False and
\* its last line is the orphaned-delegation warning, printed in no other case.
C4_AtLeastOneResolved ==
    ret # "None" =>
        /\ ret \in {"True", "False"}
        /\ (ret = "True") <=> (\E idx \in DOMAIN subdomain_ns : Resolved(idx))
        /\ (ret = "False") <=> Printed("None of the NS servers were able to resolve")
        /\ (ret = "False") => Last(out).text = "None of the NS servers were able to resolve"

C4_Witness ==
    /\ ret = "True"
    /\ \E idx \in DOMAIN subdomain_ns : ~Resolved(idx)

C4_WitnessEmpty ==
    /\ ret = "False"
    /\ subdomain_ns = <<>>

\* C5: no exception of a DNS query leaves check_vulnerability.
C5_NothingEscapes == exc = "none"

\* C6: with a distinct delegation and an empty match list no resolution
\* verification happens (no direct A query, no per-name-server probe) and the
\* run ends with the "likely not vulnerable" verdict.
C6_NoMatchEndsRun ==
    aws_ns_servers = <<>> =>
        /\ ~VerificationReached
        /\ pc = "done" => Last(out).text = "likely not vulnerable"

\* C7: once resolution verification is reached, the finished run has probed
\* every name server of the subdomain's NS list exactly once and printed exactly
\* one per-server line for it.
C7_EveryServerProbedOnce ==
    (pc = "done" /\ VerificationReached) =>
        \A idx \in DOMAIN subdomain_ns :
            /\ Cardinality({k \in DOMAIN queries :
                               queries[k].q = "ns_host" /\ queries[k].idx = idx}) = 1
            /\ Cardinality({k \in DOMAIN out : out[k].q = "probe" /\ out[k].idx = idx}) = 1

\* The same for the runs that enter check_ns_resolution: the loop itself skips
\* no server, whatever the probes give.
ProbeLoopCoversEveryServer ==
    (pc \in {"next_step", "done"}
        /\ Printed("Checking if NS servers can resolve the subdomain")) =>
        \A idx \in DOMAIN subdomain_ns :
            /\ Cardinality({k \in DOMAIN queries :
                               queries[k].q = "ns_host" /\ queries[k].idx = idx}) = 1
            /\ Cardinality({k \in DOMAIN out : out[k].q = "probe" /\ out[k].idx = idx}) = 1

\* C8: with a subdomain of at most two labels and no parent domain given, the
\* run ends after the header with the single error line and without any query.
C8_NoParentAborts ==
    (pc # "start" /\ ~Truthy(parent_arg) /\ LabelCount(subdomain) <= 2) =>
        /\ pc = "done"
        /\ queries = <<>>
        /\ exc = "none"
        /\ Len(out) = 2
        /\ out[2].text = "Unable to infer parent domain"
        /\ ~ENABLED Next

C8_Witness ==
    /\ pc = "done"
    /\ ~Truthy(parent_arg)
    /\ LabelCount(subdomain) = 2
    /\ Printed("Unable to infer parent domain")

\* C9: when the subdomain's NS set equals the parent's, the run is over right
\* after the comparison: its last line is the "same NS" line, the only queries
\* are the two NS lookups, nothing was classified or probed, and no step follows.
C9_SameDelegationEndsRun ==
    (pc \notin BeforeCompare /\ parent_ns # Unbound
        /\ Range(subdomain_ns) = Range(parent_ns)) =>
        /\ pc = "done"
        /\ Last(out).text = "Subdomain uses the same NS as the parent"
        /\ aws_ns_servers = Unbound
        /\ resolving_ns = Unbound
        /\ ret = "None"
        /\ Len(queries) = 2
        /\ Issued({"sub_ns", "parent_ns"}) = {1, 2}
        /\ exc = "none"
        /\ ~ENABLED Next

C9_Witness ==
    /\ pc = "done"
    /\ parent_ns # Unbound
    /\ Range(subdomain_ns) = Range(parent_ns)
    /\ subdomain_ns # parent_ns
    /\ Last(out).text = "Subdomain uses the same NS as the parent"

\* C10: in a finished run every failed query has exactly one line that
\* describes its failure.
C10_OneLinePerFailure ==
    pc = "done" =>
        \A k \in DOMAIN queries :
            queries[k].kind # "ok" => Cardinality(FailureLinesAbout(queries[k])) = 1

====
